---- MODULE Spec2Model ----
(***************************************************************************)
(* A model of froide/publicbody/models.py: the record store of public      *)
(* bodies and FOI laws (Django models), and the methods defined on them:   *)
(* PublicBody.confirm, PublicBody.children_count, PublicBody.as_json,      *)
(* FoiLaw.get_default_law, FoiLaw.calculate_due_date and                   *)
(* FoiLaw.get_refusal_reason_choices.                                      *)
(*                                                                         *)
(* Every method call is one action; it leaves its outcome in ret, as       *)
(* Return(v), ReturnNone (Python's None) or Raise(exception name).         *)
(***************************************************************************)
EXTENDS Integers, Sequences, FiniteSets, TLC

VARIABLES publicbody, foirequest, foilaw, default_law, ret

vars == <<publicbody, foirequest, foilaw, default_law, ret>>

----------------------------------------------------------------------------
(* Bounds of the model *)

\* number of public body rows the store can hold
MaxBodies == 3
\* number of FOI request rows
MaxRequests == 2
\* largest depth an administrator enters for a public body
MaxDepth == 2
\* number of FOI law rows the store can hold
MaxLaws == 3
\* largest response time of a law, and largest explicit value of a call
MaxResponseTime == 1
\* largest number of characters of a refusal_reasons text
MaxTextLen == 3

----------------------------------------------------------------------------
(* Values *)

\* SQL NULL / Python None in a nullable column
NULL == "NULL"

\* primary keys of the PublicBody and FoiRequest tables
Bodies == {"pb" \o ToString(i) : i \in 1..MaxBodies}
Requests == {"req" \o ToString(i) : i \in 1..MaxRequests}

\* settings.SITE_ID, the site of the running process, and some other site
SITE_ID == "site1"
Sites == {SITE_ID, "site2"}

Jurisdictions == {"J1", "J2"}

\* primary keys of the FoiLaw table (an AutoField counts from 1)
Laws == 1..MaxLaws

\* Python's None where an object or a number is expected
None == [kind |-> "none"]

\* a nullable integer: None is NoInt, the number n is Some(n)
NoInt == {}
Some(n) == {n}
IntOf(x) == CHOOSE n \in x : TRUE

\* outcomes of a call
Return(v) == [kind |-> "return", value |-> v]
ReturnNone == None
Raise(e) == [kind |-> "raise", exc |-> e]

----------------------------------------------------------------------------
(* PublicBody rows *)

\* the column defaults of a new PublicBody
PublicBodyDefaults ==
    [stored |-> TRUE, parent |-> NULL, root |-> NULL, depth |-> 0,
     email |-> NULL, site |-> SITE_ID, confirmed |-> TRUE,
     jurisdiction |-> NULL]

\* the slot of a row that is not in the table
NoPublicBody == [PublicBodyDefaults EXCEPT !.stored = FALSE]

\* PublicBody.non_filtered_objects: every stored row
non_filtered_objects == {b \in Bodies : publicbody[b].stored}

\* PublicBody.objects: rows of the current site that have an email address
objects ==
    {b \in non_filtered_objects :
        /\ publicbody[b].site = SITE_ID
        /\ publicbody[b].email # ""
        /\ publicbody[b].email # NULL}

\* PublicBody.children_count
children_count(b) == Cardinality({c \in objects : publicbody[c].parent = b})

----------------------------------------------------------------------------
(* FoiRequest rows: only the foreign key to the public body is read here *)

NoRequest == [stored |-> FALSE, public_body |-> NULL]

foirequest_set(b) ==
    {r \in Requests : foirequest[r].stored /\ foirequest[r].public_body = b}

----------------------------------------------------------------------------
(* Store operations on public bodies (Django ORM create / save / delete) *)

\* the foreign keys parent and root hold NULL or the key of a stored row
ReferencesStored(row) ==
    /\ row.parent \in non_filtered_objects \cup {NULL}
    /\ row.root \in non_filtered_objects \cup {NULL}

\* PublicBody(**fields).save() of a new row
InsertPublicBody(b, row) ==
    /\ ~publicbody[b].stored
    /\ row.stored
    /\ ReferencesStored(row)
    /\ publicbody' = [publicbody EXCEPT ![b] = row]
    /\ ret' = [op |-> "insert", pb |-> b]
    /\ UNCHANGED <<foirequest, foilaw, default_law>>

\* pb.<field> = ...; pb.save() of a stored row
UpdatePublicBody(b, row) ==
    /\ publicbody[b].stored
    /\ row.stored
    /\ ReferencesStored(row)
    /\ row # publicbody[b]
    /\ publicbody' = [publicbody EXCEPT ![b] = row]
    /\ ret' = [op |-> "update", pb |-> b]
    /\ UNCHANGED <<foirequest, foilaw, default_law>>

\* pb.delete(): parent and root of the other rows are on_delete=SET_NULL
DeletePublicBody(b) ==
    /\ publicbody[b].stored
    /\ publicbody' =
          [c \in Bodies |->
              IF c = b THEN NoPublicBody
              ELSE [publicbody[c] EXCEPT
                      !.parent = IF @ = b THEN NULL ELSE @,
                      !.root = IF @ = b THEN NULL ELSE @]]
    /\ ret' = [op |-> "delete", pb |-> b]
    /\ UNCHANGED <<foirequest, foilaw, default_law>>

\* a request is filed with a public body
InsertRequest(r, b) ==
    /\ ~foirequest[r].stored
    /\ publicbody[b].stored
    /\ foirequest' = [foirequest EXCEPT ![r] = [stored |-> TRUE, public_body |-> b]]
    /\ ret' = [op |-> "insert_request", pb |-> b]
    /\ UNCHANGED <<publicbody, foilaw, default_law>>

\* reading pb.children_count
read_children_count(b) ==
    /\ publicbody[b].stored
    /\ ret' = [op |-> "children_count", pb |-> b,
               result |-> Return(children_count(b))]
    /\ UNCHANGED <<publicbody, foirequest, foilaw, default_law>>

----------------------------------------------------------------------------
(* PublicBody.confirm *)

\* the outcome of confirm on a row that is not confirmed yet: the row is
\* saved with confirmed = True, confirmed_public_body() is called on every
\* request of the body, and the calls that answered True (sent) are counted
confirm_pending(b, sent) ==
    /\ publicbody' = [publicbody EXCEPT ![b].confirmed = TRUE]
    /\ ret' = [op |-> "confirm", pb |-> b,
               was_confirmed |-> publicbody[b].confirmed,
               result |-> Return(Cardinality(sent)),
               saved |-> TRUE, notified |-> foirequest_set(b)]

\* confirm without its early return: a confirmed row is confirmed again
confirm_again(b) == confirm_pending(b, {})

\* the early return of confirm on a confirmed row
confirm_already(b) ==
    /\ publicbody' = publicbody
    /\ ret' = [op |-> "confirm", pb |-> b,
               was_confirmed |-> publicbody[b].confirmed,
               result |-> ReturnNone,
               saved |-> FALSE, notified |-> {}]

\* pb.confirm(); sent is the set of requests whose confirmed_public_body()
\* answers True
confirm(b, sent) ==
    /\ publicbody[b].stored
    /\ sent \subseteq foirequest_set(b)
    /\ IF publicbody[b].confirmed
         THEN sent = {} /\ confirm_already(b)
         ELSE confirm_pending(b, sent)
    /\ UNCHANGED <<foirequest, foilaw, default_law>>

----------------------------------------------------------------------------
(* FoiLaw rows *)

\* the column defaults of a new FoiLaw
FoiLawDefaults ==
    [stored |-> TRUE, meta |-> FALSE, combined |-> {}, jurisdiction |-> NULL,
     refusal_reasons |-> <<>>, max_response_time |-> Some(30),
     max_response_time_unit |-> "day"]

NoFoiLaw == [FoiLawDefaults EXCEPT !.stored = FALSE]

\* FoiLaw.objects: every stored row
FoiLaw_objects == {l \in Laws : foilaw[l].stored}

\* FoiLaw(**fields).save() of a new row; the combined relation of a row is
\* written once the row is stored
InsertLaw(l, row) ==
    /\ ~foilaw[l].stored
    /\ row.stored
    /\ row.combined = {}
    /\ foilaw' = [foilaw EXCEPT ![l] = row]
    /\ ret' = [op |-> "insert_law"]
    /\ UNCHANGED <<publicbody, foirequest, default_law>>

\* law.<field> = ...; law.save() and law.combined.set(...) of a stored
\* row; combined holds keys of stored rows
UpdateLaw(l, row) ==
    /\ foilaw[l].stored
    /\ row.stored
    /\ row.combined \subseteq FoiLaw_objects
    /\ row # foilaw[l]
    /\ foilaw' = [foilaw EXCEPT ![l] = row]
    /\ ret' = [op |-> "update_law"]
    /\ UNCHANGED <<publicbody, foirequest, default_law>>

\* law.delete(): the rows of the combined relation that name it go with it
DeleteLaw(l) ==
    /\ foilaw[l].stored
    /\ foilaw' = [m \in Laws |->
                    IF m = l THEN NoFoiLaw
                    ELSE [foilaw[m] EXCEPT !.combined = @ \ {l}]]
    /\ ret' = [op |-> "delete_law"]
    /\ UNCHANGED <<publicbody, foirequest, default_law>>

----------------------------------------------------------------------------
(* FoiLaw.get_default_law and PublicBody.default_law *)

\* cls.objects.filter(jurisdiction=pb.jurisdiction); a None jurisdiction
\* selects the rows whose jurisdiction is NULL
filter_jurisdiction(j) == {l \in FoiLaw_objects : foilaw[l].jurisdiction = j}

\* the rows that .order_by('-meta') may put first: meta rows before the
\* others, and no order among rows of equal meta
order_by_meta_first(qs) ==
    {l \in qs : \A m \in qs : foilaw[m].meta => foilaw[l].meta}

\* settings.FROIDE_CONFIG.get("default_law", 1)
default_law_id == IF default_law = NoInt THEN 1 ELSE IntOf(default_law)

\* the lookup with the setting ignored: always the default key 1
get_law_one == IF 1 \in FoiLaw_objects THEN Return(1) ELSE ReturnNone

\* FoiLaw.objects.get(id=...), None on DoesNotExist
get_configured_law ==
    IF default_law_id \in FoiLaw_objects THEN Return(default_law_id)
    ELSE ReturnNone

\* the outcome of FoiLaw.get_default_law(pb); first is the row the database
\* puts first among those order_by_meta_first allows
get_default_law_result(pb, first) ==
    IF pb # None
      THEN IF filter_jurisdiction(pb.jurisdiction) = {}
             THEN Raise("IndexError")
             ELSE Return(first)
      ELSE get_configured_law

\* the rows the database may put first for pb
FirstRows(pb) ==
    IF pb # None /\ filter_jurisdiction(pb.jurisdiction) # {}
      THEN order_by_meta_first(filter_jurisdiction(pb.jurisdiction))
      ELSE {1}

\* FoiLaw.get_default_law(pb), and pb.default_law
get_default_law(pb, first) ==
    /\ first \in FirstRows(pb)
    /\ ret' = [op |-> "get_default_law", pb |-> pb,
               result |-> get_default_law_result(pb, first),
               previous |-> IF ret.op = "get_default_law" /\ ret.pb = pb
                              THEN ret.result
                              ELSE [kind |-> "unset"]]
    /\ UNCHANGED <<publicbody, foirequest, foilaw, default_law>>

\* the outcome of pb.as_json(): default_law may raise; law.as_dict() reads
\* law.jurisdiction.name and as_json reads pb.jurisdiction.name, which raise
\* on a None jurisdiction
as_json_result(pb, first) ==
    LET law == get_default_law_result(pb, first) IN
    IF law.kind = "raise" THEN law
    ELSE IF foilaw[law.value].jurisdiction = NULL THEN Raise("AttributeError")
    ELSE IF pb.jurisdiction = NULL THEN Raise("AttributeError")
    ELSE Return("json")

\* pb.as_json()
as_json(pb, first) ==
    /\ pb # None
    /\ first \in FirstRows(pb)
    /\ ret' = [op |-> "as_json", pb |-> pb,
               result |-> as_json_result(pb, first)]
    /\ UNCHANGED <<publicbody, foirequest, foilaw, default_law>>

----------------------------------------------------------------------------
(* Calendar arithmetic: froide.helper.date_utils and datetime.timedelta *)

Date(y, m, d) == [year |-> y, month |-> m, day |-> d]

IsLeapYear(y) == (y % 4 = 0 /\ y % 100 # 0) \/ y % 400 = 0

DaysInMonth(y, m) ==
    IF m = 2 THEN (IF IsLeapYear(y) THEN 29 ELSE 28)
    ELSE IF m \in {4, 6, 9, 11} THEN 30
    ELSE 31

NextDay(date) ==
    IF date.day < DaysInMonth(date.year, date.month)
      THEN [date EXCEPT !.day = @ + 1]
    ELSE IF date.month < 12
      THEN [date EXCEPT !.month = @ + 1, !.day = 1]
    ELSE Date(date.year + 1, 1, 1)

\* day of the week, 0 = Sunday .. 6 = Saturday
Weekday(date) ==
    LET t == <<0, 3, 2, 5, 0, 3, 5, 1, 4, 6, 2, 4>>
        y == IF date.month < 3 THEN date.year - 1 ELSE date.year
    IN (y + (y \div 4) - (y \div 100) + (y \div 400) + t[date.month] + date.day) % 7

\* date + timedelta(days=n), n >= 0
RECURSIVE add_days(_, _)
add_days(date, n) == IF n = 0 THEN date ELSE add_days(NextDay(date), n - 1)

\* no holiday calendar is at hand: weekends only
Holidays == {}

IsSkipped(date) == Weekday(date) \in {0, 6} \/ date \in Holidays

\* calculate_workingday_range: one day at a time, Saturdays, Sundays and
\* holidays not counted, until n counted days are consumed
RECURSIVE add_working_days(_, _)
add_working_days(date, n) ==
    IF n = 0 THEN date
    ELSE IF IsSkipped(NextDay(date)) THEN add_working_days(NextDay(date), n)
    ELSE add_working_days(NextDay(date), n - 1)

\* calculate_month_range_de: calendar months added, the day clamped to the
\* last day of the month reached
add_months_de(date, n) ==
    LET k == (date.month - 1) + n
        y == date.year + (k \div 12)
        m == (k % 12) + 1
        last == DaysInMonth(y, m)
    IN Date(y, m, IF date.day > last THEN last ELSE date.day)

----------------------------------------------------------------------------
(* FoiLaw.calculate_due_date *)

\* the outcome of law.calculate_due_date(date, value) for the row law of a
\* FoiLaw: date None becomes now, value None becomes max_response_time;
\* timedelta(days=None) raises TypeError; on_none is what the date_utils
\* helpers make of a None value; no branch is taken for a unit that is
\* none of the three, and the method falls off its end
calculate_due_date_result(law, date, value, now, on_none) ==
    LET date1 == IF date = None THEN now ELSE date
        value1 == IF value = NoInt THEN law.max_response_time ELSE value
    IN
    IF law.max_response_time_unit = "month_de"
      THEN (IF value1 = NoInt THEN on_none
            ELSE Return(add_months_de(date1, IntOf(value1))))
    ELSE IF law.max_response_time_unit = "day"
      THEN (IF value1 = NoInt THEN Raise("TypeError")
            ELSE Return(add_days(date1, IntOf(value1))))
    ELSE IF law.max_response_time_unit = "working_day"
      THEN (IF value1 = NoInt THEN on_none
            ELSE Return(add_working_days(date1, IntOf(value1))))
    ELSE ReturnNone

\* law.calculate_due_date(date, value) on the stored row l
calculate_due_date(l, date, value, now, on_none) ==
    /\ foilaw[l].stored
    /\ ret' = [op |-> "calculate_due_date", law |-> l, date |-> date,
               value |-> value,
               result |-> calculate_due_date_result(foilaw[l], date, value,
                                                    now, on_none)]
    /\ UNCHANGED <<publicbody, foirequest, foilaw, default_law>>

----------------------------------------------------------------------------
(* FoiLaw.get_refusal_reason_choices *)

\* a text is a sequence of characters; these stand for a letter, a blank,
\* a line feed and a carriage return
Chars == {"a", " ", "LF", "CR"}

\* str.splitlines() from position i on, cur being the line begun: a line
\* ends at LF, at CR and at CR LF (one break); a break at the end of the
\* text opens no further line
RECURSIVE splitlines_from(_, _, _)
splitlines_from(s, i, cur) ==
    IF i > Len(s) THEN (IF cur = <<>> THEN <<>> ELSE <<cur>>)
    ELSE IF s[i] = "CR" /\ i < Len(s) /\ s[i + 1] = "LF"
      THEN <<cur>> \o splitlines_from(s, i + 2, <<>>)
    ELSE IF s[i] \in {"LF", "CR"}
      THEN <<cur>> \o splitlines_from(s, i + 1, <<>>)
    ELSE splitlines_from(s, i + 1, Append(cur, s[i]))

splitlines(s) == splitlines_from(s, 1, <<>>)

\* str.split() from position i on: the runs of characters that are not blank
RECURSIVE split_from(_, _, _)
split_from(s, i, cur) ==
    IF i > Len(s) THEN (IF cur = <<>> THEN <<>> ELSE <<cur>>)
    ELSE IF s[i] = " "
      THEN (IF cur = <<>> THEN <<>> ELSE <<cur>>) \o split_from(s, i + 1, <<>>)
    ELSE split_from(s, i + 1, Append(cur, s[i]))

\* ' '.join(words)
RECURSIVE join(_)
join(words) ==
    IF words = <<>> THEN <<>>
    ELSE IF Len(words) = 1 THEN words[1]
    ELSE words[1] \o <<" ">> \o join(Tail(words))

\* the number of words Truncator(x).words(12) keeps
TruncateWords == 12

\* Truncator(x).words(num): the first num words joined by single blanks,
\* and dots after them when words were dropped
Truncator_words(x, num) ==
    LET words == split_from(x, 1, <<>>) IN
    IF Len(words) > num THEN join(SubSeq(words, 1, num)) \o <<"...">>
    ELSE join(words)

\* [('n/a', _("No law can be applied"))]
not_applicable == <<[code |-> <<"n/a">>, label |-> <<"No law can be applied">>]>>

\* law.name, here the key of the row spelled out
law_name(l) == "law" \o ToString(l)

\* the depth of calls at which the interpreter raises RecursionError; any
\* depth above the number of laws is reached on a cycle only
RecursionLimit == MaxLaws + 1

\* self.combined.all(): the laws of the combined relation, in the order the
\* database gives them, rank being the order of the FoiLaw rows
combined_all(l, rank) == SelectSeq(rank, LAMBDA m : m \in foilaw[l].combined)

RECURSIVE Flatten(_)
Flatten(seqs) == IF seqs = <<>> THEN <<>> ELSE seqs[1] \o Flatten(Tail(seqs))

\* (l[0], "%s: %s" % (law.name, l[1])) for l in choices
relabel(m, choices) ==
    [i \in 1..Len(choices) |->
        [code |-> choices[i].code,
         label |-> <<law_name(m), ":", " ">> \o choices[i].label]]

\* the choices of a law that is not meta, one per line of refusal_reasons
line_choices(text) ==
    LET lines == splitlines(text) IN
    [i \in 1..Len(lines) |->
        [code |-> lines[i], label |-> Truncator_words(lines[i], TruncateWords)]]

\* the outcome of law.get_refusal_reason_choices() at call depth depth
RECURSIVE refusal_reason_choices(_, _, _)
refusal_reason_choices(l, rank, depth) ==
    IF depth > RecursionLimit THEN Raise("RecursionError")
    ELSE IF foilaw[l].meta
      THEN LET sub == [m \in foilaw[l].combined |->
                          refusal_reason_choices(m, rank, depth + 1)]
               order == combined_all(l, rank)
           IN IF \E m \in foilaw[l].combined : sub[m].kind = "raise"
                THEN Raise("RecursionError")
                ELSE Return(not_applicable \o
                            Flatten([i \in 1..Len(order) |->
                                       relabel(order[i], Tail(sub[order[i]].value))]))
      ELSE Return(not_applicable \o line_choices(foilaw[l].refusal_reasons))

\* law.get_refusal_reason_choices() on the stored row l
get_refusal_reason_choices(l, rank) ==
    /\ foilaw[l].stored
    /\ ret' = [op |-> "get_refusal_reason_choices", law |-> l, rank |-> rank,
               result |-> refusal_reason_choices(l, rank, 1)]
    /\ UNCHANGED <<publicbody, foirequest, foilaw, default_law>>

----------------------------------------------------------------------------
(* Specification of the confirmation of public bodies *)

ConfirmRows ==
    {[PublicBodyDefaults EXCEPT !.confirmed = c] : c \in BOOLEAN}

Init ==
    /\ publicbody = [b \in Bodies |-> NoPublicBody]
    /\ foirequest = [r \in Requests |-> NoRequest]
    /\ foilaw = [l \in Laws |-> NoFoiLaw]
    /\ default_law = NoInt
    /\ ret = [op |-> "init"]

Next ==
    \/ \E b \in Bodies, row \in ConfirmRows : InsertPublicBody(b, row)
    \/ \E r \in Requests, b \in Bodies : InsertRequest(r, b)
    \/ \E b \in Bodies, sent \in SUBSET Requests : confirm(b, sent)

Spec == Init /\ [][Next]_vars

----------------------------------------------------------------------------
(* C1, as amended: confirm on a public body that is already confirmed      *)
(* returns None (no count), leaves confirmed true, does not save the row   *)
(* and calls confirmed_public_body on none of the body's requests.         *)
C1_ReconfirmIsNoOpReturningNone ==
    (ret.op = "confirm" /\ ret.was_confirmed) =>
        /\ ret.result = ReturnNone
        /\ publicbody[ret.pb].confirmed
        /\ ~ret.saved
        /\ ret.notified = {}

\* a confirmed body that has requests was confirmed again
C1_Witness ==
    /\ ret.op = "confirm"
    /\ ret.was_confirmed
    /\ foirequest_set(ret.pb) # {}

(* C1 as stated: confirm on an already confirmed public body returns the   *)
(* count zero, not an absent value, and is otherwise a no-op.              *)
C1_AsStated ==
    (ret.op = "confirm" /\ ret.was_confirmed) =>
        /\ ret.result = Return(0)
        /\ publicbody[ret.pb].confirmed
        /\ ~ret.saved
        /\ ret.notified = {}

----------------------------------------------------------------------------
(* Specification of the children of public bodies: rows are created,       *)
(* edited (parent, email, site) and deleted, and children_count is read    *)

ChildrenRows ==
    {[PublicBodyDefaults EXCEPT !.parent = p, !.email = e, !.site = s] :
        p \in Bodies \cup {NULL},
        e \in {NULL, "", "info@example.org"},
        s \in Sites}

NextChildren ==
    \/ \E b \in Bodies, row \in ChildrenRows : InsertPublicBody(b, row)
    \/ \E b \in Bodies, row \in ChildrenRows : UpdatePublicBody(b, row)
    \/ \E b \in Bodies : DeletePublicBody(b)
    \/ \E b \in Bodies : read_children_count(b)

SpecChildren == Init /\ [][NextChildren]_vars

(* C9 as stated: children_count of a body is the number of stored public   *)
(* bodies whose parent is that body, whatever their email and site.        *)
C9_AsStated ==
    ret.op = "children_count" =>
        ret.result =
            Return(Cardinality({c \in non_filtered_objects :
                                   publicbody[c].parent = ret.pb}))

----------------------------------------------------------------------------
(* Specification of the hierarchy of public bodies: rows are created with  *)
(* the column defaults, an administrator's edit sets parent, root and      *)
(* depth together, to values that agree, and rows are deleted              *)

\* depth == 0 iff parent is null iff (root is null or root is the row itself)
HierarchyConvention(b, row) ==
    /\ (row.depth = 0) <=> (row.parent = NULL)
    /\ (row.parent = NULL) <=> (row.root = NULL \/ row.root = b)

\* b is p or an ancestor of p, following parent at most n times
RECURSIVE IsAncestor(_, _, _)
IsAncestor(b, p, n) ==
    \/ p = b
    \/ /\ n > 0
       /\ p # NULL
       /\ publicbody[p].parent # NULL
       /\ IsAncestor(b, publicbody[p].parent, n - 1)

\* the rows an edit of b can write: b made a top-level body, or b put under
\* a stored parent p that is not below b, with the root and depth that
\* follow from p's
HierarchyRows(b) ==
    {[publicbody[b] EXCEPT !.parent = NULL, !.root = NULL, !.depth = 0]}
    \cup
    {[publicbody[b] EXCEPT
         !.parent = p,
         !.root = IF publicbody[p].root = NULL THEN p ELSE publicbody[p].root,
         !.depth = publicbody[p].depth + 1] :
       p \in {q \in non_filtered_objects :
                 /\ ~IsAncestor(b, q, MaxBodies)
                 /\ publicbody[q].depth < MaxDepth}}

NextHierarchy ==
    \/ \E b \in Bodies : InsertPublicBody(b, PublicBodyDefaults)
    \/ \E b \in Bodies : \E row \in HierarchyRows(b) : UpdatePublicBody(b, row)
    \/ \E b \in Bodies : DeletePublicBody(b)

SpecHierarchy == Init /\ [][NextHierarchy]_vars

(* C10 as stated: every stored public body has depth == 0 iff its parent   *)
(* is null iff (its root is null or its root is the body itself).          *)
C10_AsStated ==
    \A b \in non_filtered_objects : HierarchyConvention(b, publicbody[b])

----------------------------------------------------------------------------
(* Specification of the default-law resolver: laws are created, edited     *)
(* (jurisdiction, meta) and deleted; the default law id is a setting of    *)
(* the process; get_default_law and as_json are called with a public body  *)
(* of some jurisdiction, get_default_law also with None                    *)

ResolverLawRows ==
    {[FoiLawDefaults EXCEPT !.jurisdiction = j, !.meta = m] :
        j \in Jurisdictions \cup {NULL}, m \in BOOLEAN}

ResolverBodies ==
    {[PublicBodyDefaults EXCEPT !.jurisdiction = j] :
        j \in Jurisdictions \cup {NULL}}

InitResolver ==
    /\ publicbody = [b \in Bodies |-> NoPublicBody]
    /\ foirequest = [r \in Requests |-> NoRequest]
    /\ foilaw = [l \in Laws |-> NoFoiLaw]
    /\ default_law \in {NoInt} \cup {Some(l) : l \in Laws}
    /\ ret = [op |-> "init"]

NextResolver ==
    \/ \E l \in Laws, row \in ResolverLawRows : InsertLaw(l, row)
    \/ \E l \in Laws, row \in ResolverLawRows : UpdateLaw(l, row)
    \/ \E l \in Laws : DeleteLaw(l)
    \/ \E pb \in ResolverBodies \cup {None}, first \in Laws :
          get_default_law(pb, first)
    \/ \E pb \in ResolverBodies, first \in Laws : as_json(pb, first)

SpecResolver == InitResolver /\ [][NextResolver]_vars

\* get_default_law was called with a public body whose jurisdiction has laws
ResolvedForBody ==
    /\ ret.op = "get_default_law"
    /\ ret.pb # None
    /\ ret.pb.jurisdiction # NULL
    /\ filter_jurisdiction(ret.pb.jurisdiction) # {}

(* C4 as stated: for a public body whose jurisdiction has a law,           *)
(* get_default_law returns a law of that jurisdiction, a meta one if the   *)
(* jurisdiction has any, and the same law every time the same law records  *)
(* are asked.                                                              *)
C4_AsStated ==
    ResolvedForBody =>
        /\ ret.result.kind = "return"
        /\ foilaw[ret.result.value].jurisdiction = ret.pb.jurisdiction
        /\ (\E l \in filter_jurisdiction(ret.pb.jurisdiction) : foilaw[l].meta)
              => foilaw[ret.result.value].meta
        /\ ret.previous.kind # "unset" => ret.result = ret.previous

\* a call for a public body whose jurisdiction has no law
NoLawForBody ==
    /\ ret.op \in {"get_default_law", "as_json"}
    /\ ret.pb # None
    /\ ret.pb.jurisdiction # NULL
    /\ filter_jurisdiction(ret.pb.jurisdiction) = {}

(* C5 as stated: for a public body whose jurisdiction has no law,          *)
(* get_default_law fails with NotFound, and a caller such as as_json does  *)
(* not fail.                                                               *)
C5_AsStated ==
    NoLawForBody =>
        IF ret.op = "get_default_law"
          THEN ret.result = Raise("NotFound")
          ELSE ret.result.kind # "raise"

\* get_default_law was called without a public body
ResolvedWithoutBody == ret.op = "get_default_law" /\ ret.pb = None

(* C6, as amended: without a public body get_default_law returns the law   *)
(* whose id is the configured default law id, or id 1 when none is         *)
(* configured; when no law has that id it returns None; it never returns   *)
(* another law.                                                            *)
C6_ConfiguredLawOrNone ==
    ResolvedWithoutBody =>
        ret.result =
            IF default_law = NoInt
              THEN (IF foilaw[1].stored THEN Return(1) ELSE ReturnNone)
              ELSE (IF foilaw[IntOf(default_law)].stored
                      THEN Return(IntOf(default_law))
                      ELSE ReturnNone)

\* the configured law is missing from the table while another law is stored
C6_Witness ==
    /\ ResolvedWithoutBody
    /\ default_law # NoInt
    /\ ~foilaw[IntOf(default_law)].stored
    /\ FoiLaw_objects # {}
    /\ ret.result = ReturnNone

(* C6 as stated: without a public body get_default_law returns the law     *)
(* whose id is the configured default law id, and fails with NotConfigured *)
(* when no id is configured or no law has that id.                         *)
C6_AsStated ==
    ResolvedWithoutBody =>
        ret.result =
            IF default_law # NoInt /\ foilaw[IntOf(default_law)].stored
              THEN Return(IntOf(default_law))
              ELSE Raise("NotConfigured")

----------------------------------------------------------------------------
(* Specification of the deadline calculator: laws are created and edited   *)
(* (max_response_time, max_response_time_unit; the column is a CharField   *)
(* that takes the blank string and any other text) and calculate_due_date  *)
(* is called with or without a start date and an explicit value            *)

SupportedUnits == {"day", "working_day", "month_de"}

ResponseTimes == {NoInt} \cup {Some(n) : n \in 0..MaxResponseTime}

DueDateLawRows ==
    {[FoiLawDefaults EXCEPT !.max_response_time = t,
                            !.max_response_time_unit = u] :
        t \in ResponseTimes, u \in SupportedUnits \cup {"", "week"}}

StartDates == {Date(2020, 1, 31), Date(2021, 12, 31)}

NextDueDate ==
    \/ \E l \in Laws, row \in DueDateLawRows : InsertLaw(l, row)
    \/ \E l \in Laws, row \in DueDateLawRows : UpdateLaw(l, row)
    \/ \E l \in Laws, date \in StartDates, value \in ResponseTimes,
          on_none \in {Raise("TypeError"), ReturnNone} :
          calculate_due_date(l, date, value, date, on_none)
    \/ \E l \in Laws, now \in StartDates, value \in ResponseTimes,
          on_none \in {Raise("TypeError"), ReturnNone} :
          calculate_due_date(l, None, value, now, on_none)

SpecDueDate == Init /\ [][NextDueDate]_vars

\* calculate_due_date was called without an explicit value
DueDateOfLaw == ret.op = "calculate_due_date" /\ ret.value = NoInt

(* C2 as stated: for each of the units day, working_day and month_de,      *)
(* calculate_due_date without an explicit value returns null iff the       *)
(* law's max_response_time is null, and a null max_response_time gives     *)
(* null, never an error.                                                   *)
C2_AsStated ==
    (DueDateOfLaw /\ foilaw[ret.law].max_response_time_unit \in SupportedUnits) =>
        /\ ret.result = ReturnNone <=> foilaw[ret.law].max_response_time = NoInt
        /\ foilaw[ret.law].max_response_time = NoInt => ret.result.kind # "raise"

(* C3 as stated: for a law whose max_response_time_unit is none of the     *)
(* supported units, the blank one included, calculate_due_date fails with  *)
(* InvalidUnit.                                                            *)
C3_AsStated ==
    (ret.op = "calculate_due_date"
       /\ foilaw[ret.law].max_response_time_unit \notin SupportedUnits) =>
        ret.result = Raise("InvalidUnit")

----------------------------------------------------------------------------
(* Specification of the refusal reasons of a law that is not meta: the     *)
(* refusal_reasons text of one law is written and its choices are read     *)

\* the orders in which the database can give the FoiLaw rows
Ranks == {rank \in [1..MaxLaws -> Laws] :
            \A i, j \in 1..MaxLaws : rank[i] = rank[j] => i = j}

Texts == UNION {[1..n -> Chars] : n \in 0..MaxTextLen}

LineLawRows == {[FoiLawDefaults EXCEPT !.refusal_reasons = t] : t \in Texts}

NextLines ==
    \/ \E row \in LineLawRows : InsertLaw(1, row)
    \/ \E row \in LineLawRows : UpdateLaw(1, row)
    \/ \E rank \in Ranks : get_refusal_reason_choices(1, rank)

SpecLines == Init /\ [][NextLines]_vars

\* the lines of a text that are not empty, in order
NonEmptyLines(text) == SelectSeq(splitlines(text), LAMBDA line : line # <<>>)

\* the codes of a sequence of choices
Codes(choices) == [i \in 1..Len(choices) |-> choices[i].code]

(* C7 as stated: for a law that is not meta, the choices are the sentinel  *)
(* followed by one choice per non-empty line of refusal_reasons, in line   *)
(* order, the line being its code: 1 + the number of non-empty lines.      *)
C7_AsStated ==
    (ret.op = "get_refusal_reason_choices" /\ ~foilaw[ret.law].meta) =>
        /\ ret.result.kind = "return"
        /\ Codes(ret.result.value) =
              <<not_applicable[1].code>>
                 \o NonEmptyLines(foilaw[ret.law].refusal_reasons)
        /\ Len(ret.result.value) =
              1 + Len(NonEmptyLines(foilaw[ret.law].refusal_reasons))

----------------------------------------------------------------------------
(* Specification of the refusal reasons of meta laws: laws are created,    *)
(* edited (meta, combined, refusal_reasons) and deleted, and their choices *)
(* are read                                                                *)

ReasonLawRows ==
    {[FoiLawDefaults EXCEPT !.refusal_reasons = t] :
        t \in {<<>>, <<"a">>, <<"a", "LF", "LF", " ">>}}
    \cup
    {[FoiLawDefaults EXCEPT !.meta = TRUE, !.combined = c, !.refusal_reasons = t] :
        c \in SUBSET Laws, t \in {<<>>, <<"a">>}}

NextReasons ==
    \/ \E l \in Laws, row \in ReasonLawRows : InsertLaw(l, row)
    \/ \E l \in Laws, row \in ReasonLawRows : UpdateLaw(l, row)
    \/ \E l \in Laws : DeleteLaw(l)
    \/ \E l \in Laws, rank \in Ranks : get_refusal_reason_choices(l, rank)

SpecReasons == Init /\ [][NextReasons]_vars

(* C8 as stated: for a meta law the choices are one sentinel followed by,  *)
(* for each law in combined, that law's choices without its sentinel, the  *)
(* codes unchanged, so 1 + the sum of the combined laws' (count - 1); the  *)
(* call returns also when a combined law is meta or combined has a cycle.  *)
C8_AsStated ==
    (ret.op = "get_refusal_reason_choices" /\ foilaw[ret.law].meta) =>
        LET order == combined_all(ret.law, ret.rank)
            sub == [m \in foilaw[ret.law].combined |->
                       refusal_reason_choices(m, ret.rank, 1)]
        IN /\ ret.result.kind = "return"
           /\ \A m \in foilaw[ret.law].combined : sub[m].kind = "return"
           /\ Codes(ret.result.value) =
                 <<not_applicable[1].code>>
                    \o Flatten([i \in 1..Len(order) |->
                                  Codes(Tail(sub[order[i]].value))])
           /\ Len(ret.result.value) =
                 1 + Len(Flatten([i \in 1..Len(order) |->
                                    Tail(sub[order[i]].value)]))

====
